---- MODULE Spec2Model ----
(***************************************************************************)
(* tokio-boring/src/async_callbacks.rs: the bridge between user futures    *)
(* and the synchronous, retry-based callbacks of the handshake engine.     *)
(*                                                                         *)
(* A session (Ssl) carries three ex-data slots: the task waker, the        *)
(* select-certificate future and the private-key-method future.  The       *)
(* handshake engine enters one of four synchronous callbacks (select,      *)
(* sign, decrypt, complete); each runs with_ex_data_future and then the    *)
(* adapter code that maps the poll result to the engine's return values.   *)
(* Every statement of those functions that reads or writes a slot, calls   *)
(* user code or polls a future is one step of the model.                   *)
(***************************************************************************)
EXTENDS Integers, FiniteSets, Sequences, TLC

\* ---------------------------------------------------------------- bounds
MaxFutures == 2       \* futures the user callbacks of a session create in a run
MaxEntries == 4       \* entries the handshake engine makes into a session
MaxOut == 2           \* capacities of the output buffer / argument of a call

\* The sessions share no state: every step reads and writes the ex data and
\* the call frame of one session only.
Sessions == {"s1"}
Args == 1..MaxOut

\* ------------------------------------------------------------ vocabulary
CERT == "cert"        \* SELECT_CERT_FUTURE_INDEX
PK == "pk"            \* SELECT_PRIVATE_KEY_METHOD_FUTURE_INDEX
Indexes == {CERT, PK}

Ops == {"select", "sign", "decrypt", "complete"}
PrivateKeyOps == {"sign", "decrypt", "complete"}

\* the ex-data index an entry point drives (lines 73 and 201)
IndexOf(op) == IF op = "select" THEN CERT ELSE PK

\* Option<ExDataFuture<..>>::None; a future is [id, op, ready]: its identity,
\* the entry point whose creation closure made it, and whether the operation
\* it awaits has completed
None == [id |-> 0, op |-> "none", ready |-> FALSE]

\* Poll<Result<T, E>>: nothing yet, Pending, Ready(Err(e)), Ready(Ok(finish)).
\* A finish closure is identified by the number of bytes it needs to write.
NoPoll == [kind |-> "none", fin |-> 0]
PollPending == [kind |-> "pending", fin |-> 0]
ReadyErr == [kind |-> "err", fin |-> 0]
ReadyOk(fin) == [kind |-> "ok", fin |-> fin]

\* the outputs a user future can resolve to
FutResults == {ReadyErr} \cup {ReadyOk(n) : n \in 1..(MaxOut + 1)}

\* what a callback returns to the handshake engine: Err(RETRY), Err(FAILURE)
\* (Err(ERROR) for select certificate), Ok(n) (Ok(()) is Ok(0))
NoRet == [kind |-> "none", val |-> 0]
RETRY == [kind |-> "retry", val |-> 0]
FAILURE == [kind |-> "failure", val |-> 0]
Ok(n) == [kind |-> "ok", val |-> n]
\* what a finish closure returns: Ok(n) or its own error
FinErr == [kind |-> "err", val |-> 0]

\* the summary of a completed entry kept per slot
NoCall == [op |-> "none", ret |-> NoRet, polled |-> 0, fresh |-> FALSE]

VARIABLES
    debug,      \* cfg!(debug_assertions) of the build
    alive,      \* alive[s]: the session has not been dropped
    waker,      \* waker[s]: TASK_WAKER_INDEX holds Some(waker)
    slot,       \* slot[s][i]: the future stored at ex-data index i, or None
    pc,         \* pc[s]: position of the callback running on session s
    frame,      \* frame[s]: locals of that callback, and what it did so far
    nextId,     \* nextId[s]: identity of the next future created on s
    last,       \* last[s][i]: the most recent entry on slot i that returned
    entries,    \* entries[s]: entries made into s so far
    polls,      \* polls[s]: polls of any future of s so far
    readied     \* readied[s]: the futures of s whose poll has returned Ready

vars == <<debug, alive, waker, slot, pc, frame, nextId, last, entries, polls,
         readied>>

\* the locals of a callback on entry
NewFrame(s, op, arg) ==
    [op |-> op, idx |-> IndexOf(op), arg |-> arg,
     fut |-> None,                       \* `fut` of line 242
     poll |-> NoPoll,                    \* fut_poll_result
     ret |-> NoRet,                      \* value returned to the engine
     entry |-> slot[s][IndexOf(op)],     \* slot content when the call began
     prev |-> last[s][IndexOf(op)],      \* the previous entry on the slot
     npolls |-> 0, polled |-> 0,         \* polls in the call, future polled
     raw |-> NoPoll,                     \* what that poll returned
     cres |-> "none",                    \* what create_fut did, if invoked
     writes |-> 0,                       \* writes to the slot in the call
     finished |-> 0, finArg |-> 0,       \* finish closure runs, its argument
     finRet |-> NoRet]                   \* and what it reported

Init ==
    /\ debug \in BOOLEAN
    /\ alive = [s \in Sessions |-> TRUE]
    /\ waker = [s \in Sessions |-> FALSE]
    /\ slot = [s \in Sessions |-> [i \in Indexes |-> None]]
    /\ pc = [s \in Sessions |-> "idle"]
    /\ last = [s \in Sessions |-> [i \in Indexes |-> NoCall]]
    /\ frame = [s \in Sessions |->
                  [op |-> "none", idx |-> CERT, arg |-> 0, fut |-> None,
                   poll |-> NoPoll, ret |-> NoRet, entry |-> None,
                   prev |-> NoCall, npolls |-> 0, polled |-> 0, raw |-> NoPoll,
                   cres |-> "none", writes |-> 0, finished |-> 0, finArg |-> 0,
                   finRet |-> NoRet]]
    /\ nextId = [s \in Sessions |-> 1]
    /\ entries = [s \in Sessions |-> 0]
    /\ polls = [s \in Sessions |-> 0]
    /\ readied = [s \in Sessions |-> {}]

Between(s) == pc[s] \in {"idle", "done"}

\* -------------------------------------------------- the handshake engine
\* The engine calls one of the four callbacks on a session nobody is driving.
Enter(s, op, arg) ==
    /\ alive[s]
    /\ Between(s)
    /\ entries[s] < MaxEntries
    /\ \/ slot[s][IndexOf(op)] # None
       \/ op = "complete"
       \/ nextId[s] <= MaxFutures
    /\ frame' = [frame EXCEPT ![s] = NewFrame(s, op, arg)]
    /\ pc' = [pc EXCEPT ![s] = "driver"]
    /\ entries' = [entries EXCEPT ![s] = @ + 1]
    /\ UNCHANGED <<debug, alive, waker, slot, nextId, last, polls, readied>>

\* ------------------------------------------------- with_ex_data_future
\* DriverEntry with the test of line 235 lost: a future is always created
DriverEntry_ignoreStored(s) ==
    /\ pc[s] = "driver"
    /\ pc' = [pc EXCEPT ![s] = IF ~waker[s] THEN "panicked" ELSE "create"]
    /\ UNCHANGED <<debug, alive, waker, slot, frame, nextId, last, entries, polls, readied>>

\* DriverEntry with the expect of line 231 lost: the driver runs without a waker
DriverEntry_noWakerCheck(s) ==
    /\ pc[s] = "driver"
    /\ pc' = [pc EXCEPT ![s] =
                IF slot[s][frame[s].idx] # None THEN "poll_stored" ELSE "create"]
    /\ UNCHANGED <<debug, alive, waker, slot, frame, nextId, last, entries, polls, readied>>

\* DriverEntry resuming a stored future for complete only: sign, decrypt
\* and select always start a new operation
DriverEntry_resumeOnlyComplete(s) ==
    /\ pc[s] = "driver"
    /\ pc' = [pc EXCEPT ![s] =
                IF ~waker[s] THEN "panicked"
                ELSE IF slot[s][frame[s].idx] # None /\ frame[s].op = "complete"
                     THEN "poll_stored"
                ELSE "create"]
    /\ UNCHANGED <<debug, alive, waker, slot, frame, nextId, last, entries, polls, readied>>

\* lines 226-235: read the waker (panic if absent), then look at the slot
DriverEntry(s) ==
    /\ pc[s] = "driver"
    /\ pc' = [pc EXCEPT ![s] =
                IF ~waker[s] THEN "panicked"
                ELSE IF slot[s][frame[s].idx] # None THEN "poll_stored"
                ELSE "create"]
    /\ UNCHANGED <<debug, alive, waker, slot, frame, nextId, last, entries, polls, readied>>

\* what polling future f yields: Pending until it is ready, then its output
PollOutcomes(f) == IF f.ready THEN FutResults ELSE {PollPending}

\* PollStored polling a pending future a second time before giving up
PollStored_twice(s) ==
    /\ pc[s] = "poll_stored"
    /\ LET f == slot[s][frame[s].idx] IN
       \E r \in PollOutcomes(f) :
          /\ frame' = [frame EXCEPT ![s].poll = r,
                                    ![s].raw = r,
                                    ![s].npolls = IF r = PollPending THEN @ + 2 ELSE @ + 1,
                                    ![s].polled = f.id]
          /\ pc' = [pc EXCEPT ![s] = IF r = PollPending THEN "adapter" ELSE "clear"]
          /\ readied' = [readied EXCEPT ![s] = IF r = PollPending THEN @ ELSE @ \cup {f.id}]
          /\ polls' = [polls EXCEPT ![s] = IF r = PollPending THEN @ + 2 ELSE @ + 1]
    /\ UNCHANGED <<debug, alive, waker, slot, nextId, last, entries>>

\* PollStored taking the future out of the slot to poll it, and not putting
\* it back when it is still pending
PollStored_takes(s) ==
    /\ pc[s] = "poll_stored"
    /\ LET f == slot[s][frame[s].idx] IN
       \E r \in PollOutcomes(f) :
          /\ frame' = [frame EXCEPT ![s].poll = r,
                                    ![s].raw = r,
                                    ![s].npolls = @ + 1,
                                    ![s].polled = f.id,
                                    ![s].writes = @ + 1]
          /\ pc' = [pc EXCEPT ![s] = "adapter"]
          /\ readied' = [readied EXCEPT ![s] = IF r = PollPending THEN @ ELSE @ \cup {f.id}]
    /\ slot' = [slot EXCEPT ![s][frame[s].idx] = None]
    /\ polls' = [polls EXCEPT ![s] = @ + 1]
    /\ UNCHANGED <<debug, alive, waker, nextId, last, entries>>

\* line 236: poll the stored future; ready! returns Pending from the driver
PollStored(s) ==
    /\ pc[s] = "poll_stored"
    /\ LET f == slot[s][frame[s].idx] IN
       \E r \in PollOutcomes(f) :
          /\ frame' = [frame EXCEPT ![s].poll = r,
                                    ![s].raw = r,
                                    ![s].npolls = @ + 1,
                                    ![s].polled = f.id]
          /\ pc' = [pc EXCEPT ![s] = IF r = PollPending THEN "adapter" ELSE "clear"]
          /\ readied' = [readied EXCEPT ![s] = IF r = PollPending THEN @ ELSE @ \cup {f.id}]
    /\ polls' = [polls EXCEPT ![s] = @ + 1]
    /\ UNCHANGED <<debug, alive, waker, slot, nextId, last, entries>>

\* ClearSlot with the assignment of line 238 lost
ClearSlot_keeps(s) ==
    /\ pc[s] = "clear"
    /\ pc' = [pc EXCEPT ![s] = "adapter"]
    /\ UNCHANGED <<debug, alive, waker, slot, frame, nextId, last, entries, polls, readied>>

\* lines 238-240: *data = None; Poll::Ready(fut_result)
ClearSlot(s) ==
    /\ pc[s] = "clear"
    /\ slot' = [slot EXCEPT ![s][frame[s].idx] = None]
    /\ frame' = [frame EXCEPT ![s].writes = @ + 1]
    /\ pc' = [pc EXCEPT ![s] = "adapter"]
    /\ UNCHANGED <<debug, alive, waker, nextId, last, entries, polls, readied>>

\* CreateOutcomes with complete's closure forwarding to the user's method
CreateOutcomes_completeCreates(op) == {"err", "ok"}

\* what the creation closure of an entry point does: the user's callback or
\* method fails or returns a future (lines 75, 151, 162); complete's closure
\* panics in a debug build and fails otherwise (lines 171-181)
CreateOutcomes(op) ==
    IF op = "complete"
    THEN IF debug THEN {"panic"} ELSE {"err"}
    ELSE {"err", "ok"}

\* Create reporting a creation error as Poll::Pending
Create_errPending(s) ==
    /\ pc[s] = "create"
    /\ \E o \in CreateOutcomes(frame[s].op) :
          \/ /\ o = "panic"
             /\ frame' = [frame EXCEPT ![s].cres = o]
             /\ pc' = [pc EXCEPT ![s] = "panicked"]
             /\ UNCHANGED nextId
          \/ /\ o = "err"
             /\ frame' = [frame EXCEPT ![s].cres = o, ![s].poll = PollPending]
             /\ pc' = [pc EXCEPT ![s] = "adapter"]
             /\ UNCHANGED nextId
          \/ /\ o = "ok"
             /\ \E rdy \in BOOLEAN :
                   frame' = [frame EXCEPT
                               ![s].cres = o,
                               ![s].fut = [id |-> nextId[s], op |-> frame[s].op,
                                           ready |-> rdy]]
             /\ nextId' = [nextId EXCEPT ![s] = @ + 1]
             /\ pc' = [pc EXCEPT ![s] = "poll_new"]
    /\ UNCHANGED <<debug, alive, waker, slot, last, entries, polls, readied>>

\* line 242: let mut fut = create_fut(ssl_handle)?;
Create(s) ==
    /\ pc[s] = "create"
    /\ \E o \in CreateOutcomes(frame[s].op) :
          \/ /\ o = "panic"
             /\ frame' = [frame EXCEPT ![s].cres = o]
             /\ pc' = [pc EXCEPT ![s] = "panicked"]
             /\ UNCHANGED nextId
          \/ /\ o = "err"
             /\ frame' = [frame EXCEPT ![s].cres = o, ![s].poll = ReadyErr]
             /\ pc' = [pc EXCEPT ![s] = "adapter"]
             /\ UNCHANGED nextId
          \/ /\ o = "ok"
             /\ \E rdy \in BOOLEAN :
                   frame' = [frame EXCEPT
                               ![s].cres = o,
                               ![s].fut = [id |-> nextId[s], op |-> frame[s].op,
                                           ready |-> rdy]]
             /\ nextId' = [nextId EXCEPT ![s] = @ + 1]
             /\ pc' = [pc EXCEPT ![s] = "poll_new"]
    /\ UNCHANGED <<debug, alive, waker, slot, last, entries, polls, readied>>

\* PollNew storing the new future before it looks at the poll result
PollNew_storesFirst(s) ==
    /\ pc[s] = "poll_new"
    /\ LET f == frame[s].fut IN
       \E r \in PollOutcomes(f) :
          /\ frame' = [frame EXCEPT ![s].poll = IF r = PollPending THEN NoPoll ELSE r,
                                    ![s].raw = r,
                                    ![s].npolls = @ + 1,
                                    ![s].polled = f.id,
                                    ![s].writes = @ + 1,
                                    ![s].fut = IF r = PollPending THEN f ELSE None]
          /\ slot' = [slot EXCEPT ![s][frame[s].idx] = f]
          /\ pc' = [pc EXCEPT ![s] = IF r = PollPending THEN "store" ELSE "adapter"]
          /\ readied' = [readied EXCEPT ![s] = IF r = PollPending THEN @ ELSE @ \cup {f.id}]
    /\ polls' = [polls EXCEPT ![s] = @ + 1]
    /\ UNCHANGED <<debug, alive, waker, nextId, last, entries>>

\* lines 244-246: poll the new future; Ready returns it without storing it
PollNew(s) ==
    /\ pc[s] = "poll_new"
    /\ LET f == frame[s].fut IN
       \E r \in PollOutcomes(f) :
          /\ frame' = [frame EXCEPT ![s].poll = IF r = PollPending THEN NoPoll ELSE r,
                                    ![s].raw = r,
                                    ![s].npolls = @ + 1,
                                    ![s].polled = f.id,
                                    ![s].fut = IF r = PollPending THEN f ELSE None]
          /\ pc' = [pc EXCEPT ![s] = IF r = PollPending THEN "store" ELSE "adapter"]
          /\ readied' = [readied EXCEPT ![s] = IF r = PollPending THEN @ ELSE @ \cup {f.id}]
    /\ polls' = [polls EXCEPT ![s] = @ + 1]
    /\ UNCHANGED <<debug, alive, waker, slot, nextId, last, entries>>

\* Store losing the pending future: Pending is returned, nothing is stored
Store_drops(s) ==
    /\ pc[s] = "store"
    /\ frame' = [frame EXCEPT ![s].fut = None, ![s].poll = PollPending]
    /\ pc' = [pc EXCEPT ![s] = "adapter"]
    /\ UNCHANGED <<debug, alive, waker, slot, nextId, last, entries, polls, readied>>

\* Store keeping the future in one process-wide cell per index, not in the
\* ex data of the session
Store_global(s) ==
    /\ pc[s] = "store"
    /\ slot' = [t \in DOMAIN slot |-> [slot[t] EXCEPT ![frame[s].idx] = frame[s].fut]]
    /\ frame' = [frame EXCEPT ![s].fut = None,
                              ![s].poll = PollPending,
                              ![s].writes = @ + 1]
    /\ pc' = [pc EXCEPT ![s] = "adapter"]
    /\ UNCHANGED <<debug, alive, waker, nextId, last, entries, polls, readied>>

\* lines 247-249: set_ex_data(index, Some(fut)); Poll::Pending
Store(s) ==
    /\ pc[s] = "store"
    /\ slot' = [slot EXCEPT ![s][frame[s].idx] = frame[s].fut]
    /\ frame' = [frame EXCEPT ![s].fut = None,
                              ![s].poll = PollPending,
                              ![s].writes = @ + 1]
    /\ pc' = [pc EXCEPT ![s] = "adapter"]
    /\ UNCHANGED <<debug, alive, waker, nextId, last, entries, polls, readied>>

\* ------------------------------------------------------------ the adapters
\* the callback returns r to the handshake engine
Return(s, r) ==
    /\ frame' = [frame EXCEPT ![s].ret = r]
    /\ last' = [last EXCEPT ![s][frame[s].idx] =
                  [op |-> frame[s].op, ret |-> r, polled |-> frame[s].polled,
                   fresh |-> frame[s].cres = "ok"]]
    /\ pc' = [pc EXCEPT ![s] = "done"]

\* PrivateKeyAdapter asking the engine to retry after a failed future
PrivateKeyAdapter_errRetries(s) ==
    /\ pc[s] = "adapter"
    /\ frame[s].op \in PrivateKeyOps
    /\ LET p == frame[s].poll IN
       \/ /\ p.kind \in {"pending", "err"}
          /\ Return(s, RETRY)
       \/ /\ p.kind = "ok"
          /\ pc' = [pc EXCEPT ![s] = "finish"]
          /\ UNCHANGED <<frame, last>>
    /\ UNCHANGED <<debug, alive, waker, slot, nextId, entries, polls, readied>>

\* lines 206-211: with_private_key_method maps the poll result
PrivateKeyAdapter(s) ==
    /\ pc[s] = "adapter"
    /\ frame[s].op \in PrivateKeyOps
    /\ LET p == frame[s].poll IN
       \/ /\ p.kind = "pending"
          /\ Return(s, RETRY)
       \/ /\ p.kind = "err"
          /\ Return(s, FAILURE)
       \/ /\ p.kind = "ok"
          /\ pc' = [pc EXCEPT ![s] = "finish"]
          /\ UNCHANGED <<frame, last>>
    /\ UNCHANGED <<debug, alive, waker, slot, nextId, entries, polls, readied>>

\* SelectCertAdapter reporting success without running the finish closure
SelectCertAdapter_skipsFinish(s) ==
    /\ pc[s] = "adapter"
    /\ frame[s].op = "select"
    /\ LET p == frame[s].poll IN
       \/ /\ p.kind = "pending"
          /\ Return(s, RETRY)
       \/ /\ p.kind = "err"
          /\ Return(s, FAILURE)
       \/ /\ p.kind = "ok"
          /\ Return(s, Ok(0))
    /\ UNCHANGED <<debug, alive, waker, slot, nextId, entries, polls, readied>>

\* lines 78-83: the select-certificate callback maps the poll result
SelectCertAdapter(s) ==
    /\ pc[s] = "adapter"
    /\ frame[s].op = "select"
    /\ LET p == frame[s].poll IN
       \/ /\ p.kind = "pending"
          /\ Return(s, RETRY)
       \/ /\ p.kind = "err"
          /\ Return(s, FAILURE)
       \/ /\ p.kind = "ok"
          /\ pc' = [pc EXCEPT ![s] = "finish"]
          /\ UNCHANGED <<frame, last>>
    /\ UNCHANGED <<debug, alive, waker, slot, nextId, entries, polls, readied>>

\* a finish closure applied to the argument of a call: it needs fin bytes of
\* the output buffer (of the view), fails if they are not there, and
\* reports what it wrote (types of lines 12 and 19-20)
ApplyFinish(fin, arg) == IF fin <= arg THEN Ok(fin) ELSE FinErr

\* the finish closure runs on the argument a, and the callback returns r
RunFinish(s, a, r) ==
    /\ frame' = [frame EXCEPT ![s].ret = r,
                              ![s].finished = @ + 1,
                              ![s].finArg = a,
                              ![s].finRet = ApplyFinish(frame[s].poll.fin, a)]
    /\ last' = [last EXCEPT ![s][frame[s].idx] =
                  [op |-> frame[s].op, ret |-> r, polled |-> frame[s].polled,
                   fresh |-> frame[s].cres = "ok"]]
    /\ pc' = [pc EXCEPT ![s] = "done"]

\* PrivateKeyFinish reporting the capacity of the buffer, not what was written
PrivateKeyFinish_bufferLen(s) ==
    /\ pc[s] = "finish"
    /\ frame[s].op \in PrivateKeyOps
    /\ LET r == ApplyFinish(frame[s].poll.fin, frame[s].arg) IN
       RunFinish(s, frame[s].arg, IF r.kind = "ok" THEN Ok(frame[s].arg) ELSE FAILURE)
    /\ UNCHANGED <<debug, alive, waker, slot, nextId, entries, polls, readied>>

\* line 213: finish(ssl, output).or(Err(ssl::PrivateKeyMethodError::FAILURE))
PrivateKeyFinish(s) ==
    /\ pc[s] = "finish"
    /\ frame[s].op \in PrivateKeyOps
    /\ LET r == ApplyFinish(frame[s].poll.fin, frame[s].arg) IN
       RunFinish(s, frame[s].arg, IF r.kind = "ok" THEN r ELSE FAILURE)
    /\ UNCHANGED <<debug, alive, waker, slot, nextId, entries, polls, readied>>

\* SelectCertFinish discarding the result of the finish closure
SelectCertFinish_ignoresFailure(s) ==
    /\ pc[s] = "finish"
    /\ frame[s].op = "select"
    /\ RunFinish(s, frame[s].arg, Ok(0))
    /\ UNCHANGED <<debug, alive, waker, slot, nextId, entries, polls, readied>>

\* line 85: finish(client_hello).or(Err(ssl::SelectCertError::ERROR))
SelectCertFinish(s) ==
    /\ pc[s] = "finish"
    /\ frame[s].op = "select"
    /\ LET r == ApplyFinish(frame[s].poll.fin, frame[s].arg) IN
       RunFinish(s, frame[s].arg, IF r.kind = "ok" THEN Ok(0) ELSE FAILURE)
    /\ UNCHANGED <<debug, alive, waker, slot, nextId, entries, polls, readied>>

\* ------------------------------------------------------------ environment
\* the operation a stored future waits for completes
FutureProgress(s, i) ==
    /\ slot[s][i] # None
    /\ ~slot[s][i].ready
    /\ slot' = [slot EXCEPT ![s][i].ready = TRUE]
    /\ UNCHANGED <<debug, alive, waker, pc, frame, nextId, last, entries, polls, readied>>

\* the external driver installs or removes the task waker between entries
SetWaker(s) ==
    /\ alive[s] /\ Between(s) /\ ~waker[s]
    /\ waker' = [waker EXCEPT ![s] = TRUE]
    /\ UNCHANGED <<debug, alive, slot, pc, frame, nextId, last, entries, polls, readied>>

ClearWaker(s) ==
    /\ alive[s] /\ Between(s) /\ waker[s]
    /\ waker' = [waker EXCEPT ![s] = FALSE]
    /\ UNCHANGED <<debug, alive, slot, pc, frame, nextId, last, entries, polls, readied>>

\* Teardown leaking the ex data: the session goes, its futures stay
Teardown_leaks(s) ==
    /\ alive[s] /\ Between(s)
    /\ alive' = [alive EXCEPT ![s] = FALSE]
    /\ waker' = [waker EXCEPT ![s] = FALSE]
    /\ UNCHANGED <<debug, slot, pc, frame, nextId, last, entries, polls, readied>>

\* the session is dropped, and its ex data with it
Teardown(s) ==
    /\ alive[s] /\ Between(s)
    /\ alive' = [alive EXCEPT ![s] = FALSE]
    /\ waker' = [waker EXCEPT ![s] = FALSE]
    /\ slot' = [slot EXCEPT ![s] = [i \in Indexes |-> None]]
    /\ UNCHANGED <<debug, pc, frame, nextId, last, entries, polls, readied>>

Next ==
    \/ \E s \in DOMAIN pc, op \in Ops, arg \in Args : Enter(s, op, arg)
    \/ \E s \in DOMAIN pc : DriverEntry(s)
    \/ \E s \in DOMAIN pc : PollStored(s)
    \/ \E s \in DOMAIN pc : ClearSlot(s)
    \/ \E s \in DOMAIN pc : Create(s)
    \/ \E s \in DOMAIN pc : PollNew(s)
    \/ \E s \in DOMAIN pc : Store(s)
    \/ \E s \in DOMAIN pc : PrivateKeyAdapter(s)
    \/ \E s \in DOMAIN pc : SelectCertAdapter(s)
    \/ \E s \in DOMAIN pc : PrivateKeyFinish(s)
    \/ \E s \in DOMAIN pc : SelectCertFinish(s)
    \/ \E s \in DOMAIN pc, i \in Indexes : FutureProgress(s, i)
    \/ \E s \in DOMAIN pc : SetWaker(s)
    \/ \E s \in DOMAIN pc : ClearWaker(s)
    \/ \E s \in DOMAIN pc : Teardown(s)

Spec == Init /\ [][Next]_vars

\* ------------------------------------------- the cooperative environment
\* The environment the liveness of an operation is stated for: the external
\* driver installs the waker and never removes it, the session is not
\* dropped, the engine calls complete only for a parked operation, and after
\* a retry sentinel it calls the entry point again once the future has woken
\* the task.

\* the engine passes output buffers of the largest capacity
LiveArgs == {MaxOut}

\* an entry made while the waker is installed, complete only on a parked future
LiveEnter(s, op, arg) ==
    /\ waker[s]
    /\ op = "complete" => slot[s][PK] # None
    /\ Enter(s, op, arg)

\* the entry point the engine calls to resume the operation parked at index i
ResumeOp(i) == IF i = CERT THEN "select" ELSE "complete"

\* the engine re-invokes the entry point of a parked operation whose future
\* is ready; this entry is not subject to the budget of Enter
Reenter(s, i, arg) ==
    /\ alive[s]
    /\ Between(s)
    /\ waker[s]
    /\ slot[s][i] # None
    /\ slot[s][i].ready
    /\ last[s][i].ret = RETRY
    /\ frame' = [frame EXCEPT ![s] = NewFrame(s, ResumeOp(i), arg)]
    /\ pc' = [pc EXCEPT ![s] = "driver"]
    /\ entries' = [entries EXCEPT ![s] = @ + 1]
    /\ UNCHANGED <<debug, alive, waker, slot, nextId, last, polls, readied>>

\* one step of the callback running on s
Step(s) ==
    \/ DriverEntry(s)
    \/ PollStored(s)
    \/ ClearSlot(s)
    \/ Create(s)
    \/ PollNew(s)
    \/ Store(s)
    \/ PrivateKeyAdapter(s)
    \/ SelectCertAdapter(s)
    \/ PrivateKeyFinish(s)
    \/ SelectCertFinish(s)

LiveNext ==
    \/ \E s \in DOMAIN pc, op \in Ops, arg \in LiveArgs : LiveEnter(s, op, arg)
    \/ \E s \in DOMAIN pc, i \in Indexes, arg \in LiveArgs : Reenter(s, i, arg)
    \/ \E s \in DOMAIN pc : Step(s)
    \/ \E s \in DOMAIN pc, i \in Indexes : FutureProgress(s, i)
    \/ \E s \in DOMAIN pc : SetWaker(s)

\* a callback that was entered runs to its return; the operation a parked
\* future awaits completes; the engine resumes a parked operation that woke
LiveSpec ==
    /\ Init
    /\ [][LiveNext]_vars
    /\ \A s \in Sessions : WF_vars(Step(s))
    /\ \A s \in Sessions, i \in Indexes : WF_vars(FutureProgress(s, i))
    /\ \A s \in Sessions, i \in Indexes : WF_vars(\E arg \in LiveArgs : Reenter(s, i, arg))

\* ------------------------------------------------- two sessions at once
\* Two sessions driven at the same time, each by one caller: their steps
\* interleave in any order.  Each session gets IsoEntries entries, all with
\* an output buffer of the largest capacity; the waker, once installed, stays
\* and the sessions live on.
IsoEntries == 2
TwoSessions == {"s1", "s2"}

IsoInit ==
    /\ debug \in BOOLEAN
    /\ alive = [s \in TwoSessions |-> TRUE]
    /\ waker = [s \in TwoSessions |-> FALSE]
    /\ slot = [s \in TwoSessions |-> [i \in Indexes |-> None]]
    /\ pc = [s \in TwoSessions |-> "idle"]
    /\ last = [s \in TwoSessions |-> [i \in Indexes |-> NoCall]]
    /\ frame = [s \in TwoSessions |->
                  [op |-> "none", idx |-> CERT, arg |-> 0, fut |-> None,
                   poll |-> NoPoll, ret |-> NoRet, entry |-> None,
                   prev |-> NoCall, npolls |-> 0, polled |-> 0, raw |-> NoPoll,
                   cres |-> "none", writes |-> 0, finished |-> 0, finArg |-> 0,
                   finRet |-> NoRet]]
    /\ nextId = [s \in TwoSessions |-> 1]
    /\ entries = [s \in TwoSessions |-> 0]
    /\ polls = [s \in TwoSessions |-> 0]
    /\ readied = [s \in TwoSessions |-> {}]

IsoEnter(s, op) ==
    /\ entries[s] < IsoEntries
    /\ Enter(s, op, MaxOut)

IsoNext ==
    \/ \E s \in DOMAIN pc, op \in Ops : IsoEnter(s, op)
    \/ \E s \in DOMAIN pc : Step(s)
    \/ \E s \in DOMAIN pc, i \in Indexes : FutureProgress(s, i)
    \/ \E s \in DOMAIN pc : SetWaker(s)

IsoSpec == IsoInit /\ [][IsoNext]_vars

\* ------------------------------------------------------------- properties
\* the driver of the running or last call got past its poll or its creation
AfterPoll(s) == pc[s] \in {"clear", "adapter", "finish", "done"}
InCall(s) == pc[s] \in {"driver", "poll_stored", "clear", "create", "poll_new",
                        "store", "adapter", "finish"}

\* C1: an entry polls at most once; an entry that finds a stored future polls
\* exactly that future exactly once; over any sequence of entries there are
\* never more polls than entries (nothing polls outside an entry).
C1_OnePollPerEntry ==
    \A s \in DOMAIN pc :
       /\ frame[s].npolls <= 1
       /\ polls[s] <= entries[s]
       /\ (frame[s].npolls > 0 => pc[s] # "idle")
       /\ (AfterPoll(s) /\ frame[s].entry # None) =>
             /\ frame[s].npolls = 1
             /\ frame[s].polled = frame[s].entry.id

\* a third entry that found the stored future, polled it once, and returned
C1_Witness ==
    \E s \in DOMAIN pc :
       /\ pc[s] = "done" /\ entries[s] = 3 /\ polls[s] = 3
       /\ frame[s].entry # None /\ frame[s].npolls = 1
       /\ frame[s].ret = RETRY

\* C2: an entry that finds the slot empty and whose new future is pending
\* writes the slot exactly once, storing that future; the next entry on the
\* slot that gets past the waker check polls that same future and does not
\* invoke its creation closure.
C2_PendingStoredAndResumed ==
    \A s \in DOMAIN pc :
       /\ (pc[s] \in {"adapter", "done"} /\ frame[s].entry = None
              /\ frame[s].poll = PollPending) =>
             /\ frame[s].writes = 1
             /\ frame[s].cres = "ok"
             /\ alive[s] => slot[s][frame[s].idx].id = frame[s].polled
       /\ (AfterPoll(s) /\ frame[s].prev.ret = RETRY /\ frame[s].prev.fresh) =>
             /\ frame[s].cres = "none"
             /\ frame[s].npolls = 1
             /\ frame[s].polled = frame[s].prev.polled
             /\ frame[s].entry.id = frame[s].prev.polled

\* the entry after a first pending poll has resumed the stored future
C2_Witness ==
    \E s \in DOMAIN pc :
       /\ pc[s] = "done"
       /\ frame[s].prev.ret = RETRY /\ frame[s].prev.fresh
       /\ frame[s].polled = frame[s].prev.polled
       /\ frame[s].ret.kind = "ok"

\* C3: in a call that found the slot empty and whose new future was ready on
\* its first poll, the driver returns Ready and the slot is never written:
\* it is empty in every state from entry to return.
C3_ReadyNeverStored ==
    \A s \in DOMAIN pc :
       (pc[s] # "idle" /\ frame[s].entry = None /\ frame[s].raw # PollPending) =>
          /\ frame[s].writes = 0
          /\ slot[s][frame[s].idx] = None
          /\ (frame[s].raw.kind \in {"ok", "err"} /\ AfterPoll(s)) =>
                /\ frame[s].poll = frame[s].raw
                /\ pc[s] = "done" => frame[s].ret # RETRY

\* a call on an empty slot whose future was ready at once has returned
C3_Witness ==
    \E s \in DOMAIN pc :
       /\ pc[s] = "done" /\ frame[s].entry = None /\ frame[s].cres = "ok"
       /\ frame[s].raw.kind = "ok" /\ frame[s].ret.kind = "ok"
       /\ frame[s].writes = 0 /\ slot[s][frame[s].idx] = None

\* C4: a stored future leaves its slot only when the running entry's poll of
\* that very future returned Ready, or when the session is dropped; no step
\* replaces it by another future, and a new pending future is not dropped.
C4_StoredFutureKept ==
    [][\A s \in DOMAIN pc :
          /\ \A i \in Indexes :
                (slot[s][i] # None /\ slot'[s][i].id # slot[s][i].id) =>
                   \/ ~alive'[s]
                   \/ /\ slot'[s][i] = None
                      /\ InCall(s) /\ frame[s].idx = i
                      /\ frame[s].polled = slot[s][i].id
                      /\ frame[s].raw.kind \in {"ok", "err"}
          /\ (frame[s].fut # None /\ frame'[s].fut = None) =>
                \/ frame'[s].raw.kind \in {"ok", "err"}
                \/ slot'[s][frame[s].idx] = frame[s].fut]_vars

\* a sign call found the future a decrypt call had stored, and left it there
C4_Witness ==
    \E s \in DOMAIN pc :
       /\ pc[s] = "done" /\ frame[s].op = "sign"
       /\ frame[s].entry # None /\ frame[s].entry.op = "decrypt"
       /\ frame[s].ret = RETRY
       /\ slot[s][PK].id = frame[s].entry.id

\* C5: complete entered on an empty private-key slot never returns a byte
\* count or the retry sentinel, polls nothing, runs no finish closure and
\* leaves the slot empty: it ends in a panic (no waker, or the closure of
\* line 177 in a debug build) or returns the failure sentinel (line 180).
C5_CompleteWithoutPending ==
    \A s \in DOMAIN pc :
       (frame[s].op = "complete" /\ frame[s].entry = None) =>
          /\ frame[s].ret \in {NoRet, FAILURE}
          /\ frame[s].npolls = 0
          /\ frame[s].finished = 0
          /\ frame[s].writes = 0
          /\ slot[s][PK] = None
          /\ pc[s] = "done" => (~debug /\ frame[s].cres = "err" /\ frame[s].ret = FAILURE)
          /\ debug => pc[s] \in {"driver", "create", "panicked"}
          /\ frame[s].cres = "panic" => (debug /\ pc[s] = "panicked")

\* after a decrypt that completed, complete reached its creation closure
C5_Witness ==
    \E s \in DOMAIN pc :
       /\ frame[s].op = "complete" /\ frame[s].entry = None
       /\ frame[s].prev.op = "decrypt" /\ frame[s].prev.ret.kind = "ok"
       /\ \/ pc[s] = "panicked" /\ frame[s].cres = "panic"
          \/ pc[s] = "done" /\ frame[s].ret = FAILURE

\* C6: once the poll of a stored future returned Ready (Ok or Err) the slot
\* is empty from the driver's return on, so in particular while the finish
\* closure runs; and the entry that follows a final result on the same slot
\* finds it empty and invokes its creation closure.
C6_ClearedBeforeFinish ==
    \A s \in DOMAIN pc :
       /\ (pc[s] \in {"adapter", "finish", "done"} /\ frame[s].entry # None
              /\ frame[s].raw.kind \in {"ok", "err"}) =>
             /\ frame[s].writes = 1
             /\ slot[s][frame[s].idx] = None
       /\ pc[s] = "finish" =>
             /\ slot[s][frame[s].idx] = None
             /\ frame[s].finished = 0
       /\ (pc[s] # "idle" /\ frame[s].prev.ret.kind \in {"ok", "failure"}) =>
             /\ frame[s].entry = None
             /\ pc[s] \notin {"poll_stored", "clear"}
             /\ pc[s] \in {"poll_new", "store", "adapter", "finish", "done"} =>
                   frame[s].cres # "none"

\* the finish closure of a future that had been stored is about to run
C6_Witness ==
    \E s \in DOMAIN pc :
       /\ pc[s] = "finish" /\ frame[s].entry # None
       /\ frame[s].prev.ret = RETRY
       /\ slot[s][frame[s].idx] = None

\* C7: when the creation closure returns an error the slot was empty at
\* entry and stays untouched, nothing is polled, no finish closure runs, and
\* the callback returns the failure sentinel, never the retry sentinel.
C7_CreationError ==
    \A s \in DOMAIN pc :
       frame[s].cres = "err" =>
          /\ pc[s] \in {"adapter", "done"}
          /\ frame[s].entry = None
          /\ frame[s].npolls = 0
          /\ frame[s].finished = 0
          /\ frame[s].writes = 0
          /\ frame[s].fut = None
          /\ slot[s][frame[s].idx] = None
          /\ frame[s].ret \in {NoRet, FAILURE}
          /\ pc[s] = "done" => frame[s].ret = FAILURE

\* the user's sign method failed and the callback returned FAILURE
C7_Witness ==
    \E s \in DOMAIN pc :
       /\ pc[s] = "done" /\ frame[s].op = "sign" /\ frame[s].cres = "err"
       /\ frame[s].ret = FAILURE /\ slot[s][PK] = None

\* what the claims C8 and C9 say a callback returns, ok being its success value
Expected(s, ok) ==
    IF frame[s].raw = PollPending THEN RETRY
    ELSE IF \/ frame[s].cres = "err"
            \/ frame[s].raw.kind = "err"
            \/ frame[s].finRet.kind = "err" THEN FAILURE
    ELSE ok

\* C8: sign, decrypt and complete return the retry sentinel iff the one poll
\* of the call returned Pending; the failure sentinel if the creation closure
\* failed, the future resolved to an error or the finish closure failed; and
\* otherwise the byte count the finish closure reported when it was invoked,
\* once, on the output buffer of this call.
C8_PrivateKeyReturn ==
    \A s \in DOMAIN pc :
       (pc[s] = "done" /\ frame[s].op \in PrivateKeyOps) =>
          /\ frame[s].ret = Expected(s, frame[s].finRet)
          /\ frame[s].ret = RETRY <=> (frame[s].npolls = 1 /\ frame[s].raw = PollPending)
          /\ frame[s].raw.kind = "ok" =>
                /\ frame[s].finished = 1
                /\ frame[s].finArg = frame[s].arg
                /\ frame[s].finRet = ApplyFinish(frame[s].raw.fin, frame[s].arg)
          /\ frame[s].raw.kind # "ok" => frame[s].finished = 0

\* a decrypt call returned fewer bytes than its buffer holds
C8_Witness ==
    \E s \in DOMAIN pc :
       /\ pc[s] = "done" /\ frame[s].op = "decrypt"
       /\ frame[s].ret = Ok(1) /\ frame[s].arg = 2
       /\ frame[s].finished = 1

\* C9: the select-certificate callback returns the retry sentinel iff the
\* one poll of the call returned Pending; the failure sentinel if the
\* registered function failed, the future resolved to an error or the finish
\* closure failed on the view of this call; and success only when the finish
\* closure ran in this call and succeeded.
C9_SelectCertReturn ==
    \A s \in DOMAIN pc :
       (pc[s] = "done" /\ frame[s].op = "select") =>
          /\ frame[s].ret = Expected(s, Ok(0))
          /\ frame[s].ret = RETRY <=> (frame[s].npolls = 1 /\ frame[s].raw = PollPending)
          /\ frame[s].ret.kind = "ok" =>
                /\ frame[s].finished = 1
                /\ frame[s].finArg = frame[s].arg
                /\ frame[s].finRet.kind = "ok"
          /\ frame[s].raw.kind # "ok" => frame[s].finished = 0

\* the finish closure of a resumed certificate future failed on the view
C9_Witness ==
    \E s \in DOMAIN pc :
       /\ pc[s] = "done" /\ frame[s].op = "select"
       /\ frame[s].entry # None
       /\ frame[s].finished = 1 /\ frame[s].finRet = FinErr
       /\ frame[s].ret = FAILURE

\* C10: a complete call that follows an entry on the private-key slot that
\* returned the retry sentinel does not run its creation closure: it polls
\* the stored future, made by sign or decrypt; when that poll yields a finish
\* closure that succeeds, complete returns its byte count, and the slot is
\* empty.
C10_ResumeThroughComplete ==
    \A s \in DOMAIN pc :
       (frame[s].op = "complete" /\ frame[s].prev.ret = RETRY /\ AfterPoll(s)) =>
          /\ frame[s].cres = "none"
          /\ frame[s].npolls = 1
          /\ frame[s].polled = frame[s].prev.polled
          /\ frame[s].entry.op \in {"sign", "decrypt"}
          /\ (pc[s] = "done" /\ frame[s].raw.kind = "ok"
                 /\ frame[s].raw.fin <= frame[s].arg) =>
                /\ frame[s].ret = Ok(frame[s].raw.fin)
                /\ frame[s].ret = frame[s].finRet
                /\ slot[s][PK] = None

\* sign returned RETRY, then complete returned the byte count
C10_Witness ==
    \E s \in DOMAIN pc :
       /\ pc[s] = "done" /\ frame[s].op = "complete"
       /\ frame[s].prev.op = "sign" /\ frame[s].prev.ret = RETRY
       /\ frame[s].ret = Ok(1) /\ frame[s].arg = 2
       /\ slot[s][PK] = None

\* C11: in the cooperative environment every operation entered on a slot
\* eventually returns, on that slot, success, a byte count or the failure
\* sentinel, and the slot is empty when it does.
C11_EventuallyFinal ==
    \A s \in Sessions, i \in Indexes :
       (pc[s] = "driver" /\ frame[s].idx = i) ~>
          (/\ pc[s] = "done" /\ frame[s].idx = i
           /\ frame[s].ret.kind \in {"ok", "failure"}
           /\ slot[s][i] = None)

\* a parked sign operation was resumed beyond the budget and returned bytes
C11_Witness ==
    \E s \in DOMAIN pc :
       /\ pc[s] = "done" /\ frame[s].op = "complete"
       /\ frame[s].prev.ret = RETRY
       /\ frame[s].ret.kind = "ok"
       /\ entries[s] > MaxEntries
       /\ slot[s][PK] = None

\* C12: a call entered while the waker slot is empty gets no further than the
\* waker lookup: it ends in the panic of line 231 with the creation closure
\* not invoked, nothing polled, no finish closure run, nothing returned and
\* the future slot as it was at entry (the waker cannot change during a call).
C12_NoWakerIsFatal ==
    \A s \in DOMAIN pc :
       /\ (~waker[s] /\ alive[s] /\ pc[s] \notin {"idle", "done", "driver"}) =>
             /\ pc[s] = "panicked"
             /\ frame[s].cres = "none"
             /\ frame[s].npolls = 0
             /\ frame[s].finished = 0
             /\ frame[s].writes = 0
             /\ frame[s].ret = NoRet
             /\ slot[s][frame[s].idx].id = frame[s].entry.id
       /\ (pc[s] = "panicked" /\ frame[s].cres = "none") => ~waker[s]

\* a call that found a future stored and no waker has panicked
C12_Witness ==
    \E s \in DOMAIN pc :
       /\ pc[s] = "panicked" /\ ~waker[s]
       /\ frame[s].entry # None
       /\ slot[s][frame[s].idx].id = frame[s].entry.id

\* C13: the finish closure a poll returned is invoked exactly once, before
\* the call that polled returns: a returned call ran a finish closure iff its
\* own poll returned Ready(Ok), never more than once, never after Pending or
\* Ready(Err); no closure is left waiting between calls, and a new call
\* starts without one.
C13_FinishOnceSameCall ==
    \A s \in DOMAIN pc :
       /\ frame[s].finished <= 1
       /\ pc[s] = "done" => (frame[s].finished = 1 <=> frame[s].raw.kind = "ok")
       /\ frame[s].finished = 1 =>
             /\ pc[s] = "done"
             /\ frame[s].raw.kind = "ok"
             /\ frame[s].npolls = 1
             /\ frame[s].finArg = frame[s].arg
             /\ frame[s].ret # RETRY
       /\ (frame[s].raw.kind = "ok" /\ frame[s].finished = 0) =>
             pc[s] \in {"clear", "adapter", "finish"}
       /\ (frame[s].ret = RETRY \/ frame[s].raw.kind \in {"pending", "err"}) =>
             frame[s].finished = 0
       /\ pc[s] \in {"driver", "poll_stored", "create", "poll_new"} =>
             (frame[s].poll = NoPoll /\ frame[s].finished = 0)

\* the call that resumed a parked certificate future ran its finish closure
C13_Witness ==
    \E s \in DOMAIN pc :
       /\ pc[s] = "done" /\ frame[s].op = "select"
       /\ frame[s].prev.ret = RETRY /\ frame[s].entry # None
       /\ frame[s].raw.kind = "ok" /\ frame[s].finished = 1

\* C14: when a session is dropped its stored futures are dropped with it, and
\* from then on nothing of that session is polled and no finish closure of
\* it runs: no step changes its slots, its call frame, its poll count or the
\* set of its futures that returned Ready.
C14_DroppedWithSession ==
    [][\A s \in DOMAIN pc :
          /\ ~alive'[s] => \A i \in Indexes : slot'[s][i] = None
          /\ ~alive[s] =>
                /\ ~alive'[s]
                /\ pc'[s] = pc[s]
                /\ frame'[s] = frame[s]
                /\ polls'[s] = polls[s]
                /\ readied'[s] = readied[s]
                /\ slot'[s] = slot[s]]_vars

\* a session was dropped while its private-key future was parked and pending
C14_Witness ==
    \E s \in DOMAIN pc :
       /\ ~alive[s]
       /\ last[s][PK].ret = RETRY
       /\ last[s][PK].polled \notin readied[s]
       /\ slot[s][PK] = None

\* C15: the creation closure runs only in a call that found its slot empty,
\* and at most once per call (each creation is the step from cres "none" in
\* the create state, and allots one future); a sign or decrypt call that
\* finds a private-key future stored, whichever of sign and decrypt made it,
\* does not call the user's method: it polls that future once and returns
\* what that poll and the finish closure give.
C15_CreateOnlyWhenEmpty ==
    /\ [](\A s \in DOMAIN pc :
            /\ frame[s].cres # "none" => frame[s].entry = None
            /\ frame[s].fut # None =>
                  (frame[s].cres = "ok" /\ frame[s].fut.id = nextId[s] - 1)
            /\ (frame[s].op \in {"sign", "decrypt"} /\ frame[s].entry # None
                   /\ AfterPoll(s)) =>
                  /\ frame[s].cres = "none"
                  /\ frame[s].npolls = 1
                  /\ frame[s].polled = frame[s].entry.id
                  /\ frame[s].entry.op \in {"sign", "decrypt"}
                  /\ pc[s] = "done" => frame[s].ret = Expected(s, frame[s].finRet))
    /\ [][\A s \in DOMAIN pc :
            /\ nextId'[s] # nextId[s] =>
                  /\ nextId'[s] = nextId[s] + 1
                  /\ pc[s] = "create"
                  /\ frame[s].cres = "none" /\ frame'[s].cres = "ok"
            /\ (frame'[s].cres # frame[s].cres /\ pc'[s] # "driver") =>
                  /\ pc[s] = "create"
                  /\ frame[s].cres = "none"
                  /\ slot[s][frame[s].idx] = None]_vars

\* a sign call resumed the future a decrypt call had parked, and returned bytes
C15_Witness ==
    \E s \in DOMAIN pc :
       /\ pc[s] = "done" /\ frame[s].op = "sign"
       /\ frame[s].entry # None /\ frame[s].entry.op = "decrypt"
       /\ frame[s].cres = "none"
       /\ frame[s].ret.kind = "ok"

\* C16: for a live session, whenever no call is running on a slot (between
\* entries, or while a call runs or has panicked on the other slot), the
\* slot holds a future iff the latest entry on it that returned, returned
\* the retry sentinel; after success, a byte count or the failure sentinel
\* it is empty, as it is before any entry returned.
C16_StoredIffRetry ==
    \A s \in DOMAIN pc : \A i \in Indexes :
       (alive[s] /\ (Between(s) \/ frame[s].idx # i)) =>
          /\ slot[s][i] # None <=> last[s][i].ret = RETRY
          /\ slot[s][i] # None => slot[s][i].id = last[s][i].polled
          /\ last[s][i].ret.kind \in {"ok", "failure", "none"} => slot[s][i] = None

\* after two retries and a byte count the private-key slot is empty, while
\* the certificate slot still holds the future of a call that returned RETRY
C16_Witness ==
    \E s \in DOMAIN pc :
       /\ pc[s] = "done" /\ alive[s]
       /\ frame[s].idx = PK /\ frame[s].prev.ret = RETRY /\ ~frame[s].prev.fresh
       /\ last[s][PK].ret.kind = "ok" /\ slot[s][PK] = None
       /\ last[s][CERT].ret = RETRY /\ slot[s][CERT] # None

\* C17: a future whose poll has returned Ready is never polled again: every
\* poll is of a future that has not returned Ready before, and no future
\* that has is kept where a later call would poll it (a slot, except between
\* the Ready poll of line 236 and the clearing of line 238, or the local fut).
C17_NoPollAfterReady ==
    /\ [](\A s \in DOMAIN pc :
            /\ \A i \in Indexes :
                  (slot[s][i] # None /\ ~(pc[s] = "clear" /\ frame[s].idx = i)) =>
                     slot[s][i].id \notin readied[s]
            /\ frame[s].fut # None => frame[s].fut.id \notin readied[s]
            /\ \A n \in readied[s] : n < nextId[s])
    /\ [][\A s \in DOMAIN pc :
            polls'[s] # polls[s] => frame'[s].polled \notin readied[s]]_vars

\* one future was ready on its first poll, another after it had been parked
C17_Witness ==
    \E s \in DOMAIN pc :
       /\ pc[s] = "done"
       /\ Cardinality(readied[s]) = 2
       /\ polls[s] = 3
       /\ \A i \in Indexes : slot[s][i] = None

\* C18: a step of a callback on session s (its entry included) changes
\* nothing but the slot it drives and the bookkeeping of s: the other future
\* slot of s, every waker slot and everything of every other session stay
\* as they are; and with the steps of two sessions interleaved each session
\* still obeys the laws it obeys alone: its slots are filled iff its latest
\* returned entry on them returned RETRY, and every return value is the one
\* its own poll and finish closure determine.
C18_SessionsIsolated ==
    /\ [](\A s \in DOMAIN pc :
            /\ \A i \in Indexes :
                  (alive[s] /\ (Between(s) \/ frame[s].idx # i)) =>
                     (slot[s][i] # None <=> last[s][i].ret = RETRY)
            /\ \A i \in Indexes : slot[s][i] # None => slot[s][i].id < nextId[s]
            /\ pc[s] = "done" =>
                  frame[s].ret = Expected(s, IF frame[s].op = "select"
                                             THEN Ok(0) ELSE frame[s].finRet))
    /\ [][\A s \in DOMAIN pc :
            pc'[s] # pc[s] =>
               /\ waker' = waker
               /\ alive' = alive
               /\ \A i \in Indexes \ {frame'[s].idx} : slot'[s][i] = slot[s][i]
               /\ \A t \in DOMAIN pc \ {s} :
                     /\ slot'[t] = slot[t]
                     /\ pc'[t] = pc[t]
                     /\ frame'[t] = frame[t]
                     /\ last'[t] = last[t]
                     /\ nextId'[t] = nextId[t]
                     /\ entries'[t] = entries[t]
                     /\ polls'[t] = polls[t]
                     /\ readied'[t] = readied[t]]_vars

\* both sessions are inside a private-key call: one has just parked its
\* future, the other is about to run a finish closure, its slot empty
C18_Witness ==
    /\ DOMAIN pc = TwoSessions
    /\ pc["s1"] = "adapter" /\ frame["s1"].idx = PK /\ slot["s1"][PK] # None
    /\ frame["s1"].poll = PollPending
    /\ pc["s2"] = "finish" /\ frame["s2"].idx = PK /\ slot["s2"][PK] = None
    /\ slot["s2"][CERT] # None

====
